---- MODULE Spec2Model ----
(***************************************************************************)
(* Connection lifecycle and policy revocation of the proxy:                *)
(*   src/src/proxy/connection_manager.rs  ConnectionDrain,                 *)
(*                                        ConnectionManager, PolicyWatcher  *)
(*   src/src/proxy/inbound_passthrough.rs proxy_inbound_plaintext           *)
(*                                                                         *)
(* Two specifications share the state:                                     *)
(*   Spec     connection tasks (proxy_inbound_plaintext) racing the policy *)
(*            watcher (PolicyWatcher::run) and policy updates;             *)
(*   SpecApi  callers that invoke register / track / release / close in    *)
(*            any order and hold, await or drop the watchers they get, as  *)
(*            the unit tests of connection_manager.rs do.                  *)
(* FairSpec / FairApi add the fairness the tokio executor gives: a task    *)
(* that can make progress is eventually polled.                            *)
(***************************************************************************)
EXTENDS Naturals, Integers, Sequences, FiniteSets, TLC

\* ---------------------------------------------------------------- bounds
NumKeys == 2
NumTasks == 2
MaxTracks == 2

Keys == 1..NumKeys
Tasks == 1..NumTasks
\* Channels in existence at one time. A channel whose Signal and every Watch
\* are dropped is freed and its name is used again.
MaxChan == 3
Chans == 1..MaxChan
\* Option::None of track, and "no close in progress"
None == 0

VARIABLES
  drains,      \* ConnectionManager.drains: HashMap<ProxyRbacContext, ConnectionDrain>
  signal,      \* per channel: state of the drain::Signal half (tx); "unused" = no such channel
  entryRx,     \* channels whose ConnectionDrain.rx (the entry's own Watch) is alive
  watch,       \* per task: the drain::Watch it holds (None = no watcher)
  closeCh,     \* channel whose tx.drain() a close() call is awaiting (None = none)
  closePrior,  \* tasks that held a Watch of the key when that close() was called
  byClose,     \* per task: a close() removed the entry of its rbac_ctx since it registered
  lock,        \* the RwLock of drains: "free", or "held" by a critical section
  pc,          \* per task: position in proxy_inbound_plaintext
  tkey,        \* per task: its rbac_ctx (None before it is built and after the task ended)
  outcome,     \* per task: what result_tracker.record / log_early_deny got
  res,         \* per task: the res of the select! ("none" until a branch completes)
  rel,         \* per task: number of release calls it made
  removed,     \* per thread: what remove_entry gave release (<<>> outside release)
  policy,      \* per key: what assert_rbac answers now
  pending,     \* policies_changed has an unseen notification
  stop,        \* the drain signal of PolicyWatcher.stop was sent
  pwpc,        \* position of PolicyWatcher::run
  pwSnap,      \* the Vec returned by connections() in this iteration
  pwRes,       \* assert_rbac result per evaluated element of pwSnap
  pwClosed,    \* indices of pwSnap whose close().await returned
  pwErr,       \* indices of pwSnap whose close() logged error!("requested drain ...")
  lastOp,      \* SpecApi: the last ConnectionManager call and its result
  tracks,      \* SpecApi: per key, successful track calls on the current entry
  releases     \* SpecApi: per key, release calls on the current entry

cmVars == <<drains, signal, entryRx, watch, closeCh, closePrior, byClose, lock>>
taskVars == <<pc, tkey, outcome, res, rel, removed>>
polVars == <<policy, pending, stop>>
pwVars == <<pwpc, pwSnap, pwRes, pwClosed, pwErr>>
apiVars == <<lastOp, tracks, releases>>
vars == <<drains, signal, entryRx, watch, closeCh, closePrior, byClose, lock, pc, tkey, outcome, res, rel,
          removed,
          policy, pending, stop, pwpc, pwSnap, pwRes, pwClosed, pwErr,
          lastOp, tracks, releases>>

\* ------------------------------------------------------ HashMap helpers
\* HashMap::insert
Insert(d, k, v) == [x \in (DOMAIN d) \cup {k} |-> IF x = k THEN v ELSE d[x]]

\* HashMap::remove
Remove(d, k) == [x \in (DOMAIN d) \ {k} |-> d[x]]

\* ------------------------------------------------------ ConnectionDrain
\* ConnectionDrain::new: a fresh channel, count 0
ConnectionDrain_new(ch) == [tx |-> ch, count |-> 0]

\* drain::channel(): a channel that does not exist yet
NewChan == CHOOSE c \in Chans : signal[c] = "unused" /\ \A b \in Chans : signal[b] = "unused" => c <= b

\* a channel is freed when its Signal is gone (dropped, or drained to the
\* end) and no Watch of it is left: sig, w, rx, cl are the values after the step
Sweep(sig, w, rx, cl) ==
  [c \in Chans |->
     IF sig[c] \in {"signaled", "dropped"} /\ c \notin rx /\ c # cl /\ (\A t \in Tasks : w[t] # c)
     THEN "unused" ELSE sig[c]]
\* mutant of drain: the entry's own Watch is not dropped before the await
DrainDropRx_keep(rx, ch) == rx

\* ConnectionDrain::drain, first statement: drop(self.rx)
DrainDropRx(rx, ch) == rx \ {ch}

\* mutant of drain: the Signal only waits for the watchers (closed()) and
\* sends nothing
DrainSend_none(sig, ch) == sig

\* ConnectionDrain::drain, self.tx.drain(): the signal is sent to every Watch
DrainSend(sig, ch) == [sig EXCEPT ![ch] = "signaled"]

\* self.tx.drain().await returns when every Watch of the channel is dropped
Drained(ch) == ch \notin entryRx /\ \A t \in Tasks : watch[t] # ch

\* close.signaled() resolves: the Signal drained, or (drain crate: the watch
\* sender is gone, changed() returns and its result is ignored) was dropped
Signaled(sig, ch) == sig[ch] \in {"signaled", "dropped"}

\* ---------------------------------------------------- ConnectionManager
\* mutant of register: insert() in place of entry().or_insert()
register_overwrite(d, c, ch) == Insert(d, c, ConnectionDrain_new(ch))

\* register: entry(c).or_insert(ConnectionDrain::new())
register(d, c, ch) == IF c \in DOMAIN d THEN d ELSE Insert(d, c, ConnectionDrain_new(ch))

\* mutant of track: a vacant entry is filled (or_insert) instead of left alone
track_or_insert(d, c) ==
  IF c \in DOMAIN d THEN [d EXCEPT ![c].count = @ + 1]
  ELSE Insert(d, c, [tx |-> 1, count |-> 1])

\* track: entry(c).and_modify(|cd| cd.count += 1)
track(d, c) == IF c \in DOMAIN d THEN [d EXCEPT ![c].count = @ + 1] ELSE d

\* track's result: Occupied => Some(rx.clone()), Vacant => None
track_ret(d, c) == IF c \in DOMAIN d THEN d[c].tx ELSE None

\* mutant of release: the decrement is forgotten before the re-insert
release_noDecrement(d, c) ==
  IF c \in DOMAIN d
  THEN IF d[c].count > 1 THEN d ELSE Remove(d, c)
  ELSE d

\* mutant of release: count > 0 in place of count > 1
release_offByOne(d, c) ==
  IF c \in DOMAIN d
  THEN IF d[c].count > 0
       THEN Insert(Remove(d, c), c, [d[c] EXCEPT !.count = @ - 1])
       ELSE Remove(d, c)
  ELSE d

\* release: remove_entry, re-insert with count - 1 when count > 1
release(d, c) ==
  IF c \in DOMAIN d
  THEN IF d[c].count > 1
       THEN Insert(Remove(d, c), c, [d[c] EXCEPT !.count = @ - 1])
       ELSE Remove(d, c)
  ELSE d

\* release drops the ConnectionDrain (tx and rx) it does not re-insert
release_drops(d, c) == IF c \in DOMAIN d /\ d[c].count <= 1 THEN {d[c].tx} ELSE {}
\* mutant of close: the map is cleared (HashMap::clear) when the key is found
close_clear(d, c) == IF c \in DOMAIN d THEN [x \in {} |-> d[c]] ELSE d

\* mutant of close: the entry is read (get) and not removed
close_keep(d, c) == d

\* close, first statement: drains.write().remove(c)
close_remove(d, c) == Remove(d, c)

\* mutant of connections: only the entries some task tracks are listed
connections_tracked(d) ==
  {s \in UNION {[1..n -> {k \in DOMAIN d : d[k].count > 0}] :
                  n \in {Cardinality({k \in DOMAIN d : d[k].count > 0})}} :
     \A i, j \in DOMAIN s : i # j => s[i] # s[j]}

\* connections: keys().cloned().collect(), in the map's iteration order
connections(d) ==
  {s \in UNION {[1..n -> DOMAIN d] : n \in {Cardinality(DOMAIN d)}} :
     \A i, j \in DOMAIN s : i # j => s[i] # s[j]}
\* ProxyRbacContext.conn: the rbac::Connection of a key; two contexts that
\* differ in dest_workload_info alone have the same conn
Conn(k) == (k + 1) \div 2

\* connections_dump: keys().cloned().map(|c| c.conn).collect()
connections_dump(d) == {[i \in DOMAIN s |-> Conn(s[i])] : s \in connections(d)}

\* --- the calls as state changes on drains and the channels
\* (or_insert evaluates ConnectionDrain::new() also when the key is present;
\*  that channel is dropped at once and nothing ever holds it)
CM_register(c) ==
  /\ lock = "free"
  /\ UNCHANGED lock
  /\ c \notin DOMAIN drains => \E ch \in Chans : signal[ch] = "unused"
  /\ drains' = register(drains, c, NewChan)
  /\ IF c \in DOMAIN drains
     THEN UNCHANGED <<signal, entryRx>>
     ELSE /\ signal' = [signal EXCEPT ![NewChan] = "open"]
          /\ entryRx' = entryRx \cup {NewChan}

CM_track(t, c) ==
  /\ lock = "free"
  /\ UNCHANGED lock
  /\ drains' = track(drains, c)
  /\ watch' = [watch EXCEPT ![t] = track_ret(drains, c)]

CM_release(c) ==
  /\ lock = "free"
  /\ UNCHANGED lock
  /\ drains' = release(drains, c)
  /\ entryRx' = entryRx \ release_drops(drains, c)
  /\ signal' = Sweep([ch \in Chans |->
                        IF ch \in release_drops(drains, c) THEN "dropped" ELSE signal[ch]],
                     watch, entryRx \ release_drops(drains, c), closeCh)

\* mutant of close: the write guard is bound to a variable that lives to the
\* end of close, across cd.drain().await
close_guard_held(c) == "held"

\* close: the write guard is a temporary of the block { ... .remove(c) } and
\* is dropped at its end, before cd.drain().await
close_guard(c) == "free"

\* close up to its suspension point: remove, then drop rx and send the signal
\* (no suspension point lies between them); on a missing key error!() is
\* logged and close returns
CM_close(c) ==
  /\ lock = "free"
  /\ lock' = IF c \in DOMAIN drains THEN close_guard(c) ELSE "free"
  /\ drains' = close_remove(drains, c)
  /\ IF c \in DOMAIN drains
     THEN /\ entryRx' = DrainDropRx(entryRx, drains[c].tx)
          /\ signal' = DrainSend(signal, drains[c].tx)
          /\ closeCh' = drains[c].tx
          /\ closePrior' = {t \in Tasks : tkey[t] = c /\ watch[t] # None}
          /\ byClose' = [t \in Tasks |-> byClose[t] \/ tkey[t] = c]
     ELSE UNCHANGED <<entryRx, signal, closeCh, closePrior, byClose>>

\* cd.drain().await returns: the Signal is consumed; close holds no guard by
\* then, the guard of a release under way is not its own
CM_closed ==
  /\ closeCh # None
  /\ Drained(closeCh)
  /\ closeCh' = None
  /\ closePrior' = {}
  /\ signal' = Sweep(signal, watch, entryRx, None)
  /\ lock' = IF \E t \in Tasks : pc[t] = "reinsert" THEN lock ELSE "free"
  /\ UNCHANGED byClose
\* mutant of the drop: a clone of the Watch outlives the task
CM_drop_leak(t) == UNCHANGED <<watch, signal, lock>>

\* a task drops its Watch
CM_drop(t) ==
  /\ UNCHANGED lock
  /\ watch' = [watch EXCEPT ![t] = None]
  /\ signal' = Sweep(signal, [watch EXCEPT ![t] = None], entryRx, closeCh)

\* ------------------------------------------------------------------ Init
\* ConnectionManager::default(), no policy denying anything, nothing accepted
Init ==
  /\ drains = [x \in {} |-> ConnectionDrain_new(1)]
  /\ signal = [ch \in Chans |-> "unused"]
  /\ entryRx = {}
  /\ watch = [t \in Tasks |-> None]
  /\ closeCh = None
  /\ closePrior = {}
  /\ byClose = [t \in Tasks |-> FALSE]
  /\ lock = "free"
  /\ pc = [t \in Tasks |-> "init"]
  /\ tkey = [t \in Tasks |-> None]
  /\ outcome = [t \in Tasks |-> "none"]
  /\ res = [t \in Tasks |-> "none"]
  /\ rel = [t \in Tasks |-> 0]
  /\ removed = [t \in Tasks |-> <<>>]
  /\ policy = [k \in Keys |-> TRUE]
  /\ pending = FALSE
  /\ stop = FALSE
  /\ pwpc = "start"
  /\ pwSnap = <<>>
  /\ pwRes = <<>>
  /\ pwClosed = {}
  /\ pwErr = {}
  /\ lastOp = [op |-> "none", key |-> 1, ret |-> None, seq |-> 0]
  /\ tracks = [k \in Keys |-> 0]
  /\ releases = [k \in Keys |-> 0]

\* ------------------------------------- proxy_inbound_plaintext (one task)
\* the accept loop spawns one task per accepted socket: the tasks are
\* numbered in the order in which they start to run
Accepted(t) == pc[t] = "init" /\ \A u \in Tasks : u < t => pc[u] # "init"
\* mutant of the early deny: the checks run after register
EarlyDeny_afterRegister(t) ==
  /\ UNCHANGED removed
  /\ Accepted(t)
  /\ \E k \in Keys : CM_register(k)
  /\ pc' = [pc EXCEPT ![t] = "done"]
  /\ outcome' = [outcome EXCEPT ![t] = "early_deny"]
  /\ UNCHANGED <<watch, closeCh, closePrior, byClose, tkey, res, rel, polVars, pwVars, apiVars>>

\* self call in shared mode, or fetch_workload_services found nothing
EarlyDeny(t) ==
  /\ UNCHANGED removed
  /\ Accepted(t)
  /\ pc' = [pc EXCEPT ![t] = "done"]
  /\ outcome' = [outcome EXCEPT ![t] = "early_deny"]
  /\ UNCHANGED <<cmVars, tkey, res, rel, polVars, pwVars, apiVars>>

\* rbac_ctx is built and connection_manager.register(&rbac_ctx) is called
Register(t) ==
  /\ UNCHANGED removed
  /\ Accepted(t)
  /\ \E k \in Keys :
       /\ CM_register(k)
       /\ tkey' = [tkey EXCEPT ![t] = k]
  /\ pc' = [pc EXCEPT ![t] = "registered"]
  /\ UNCHANGED <<watch, closeCh, closePrior, byClose, outcome, res, rel, polVars, pwVars, apiVars>>

\* pi.state.assert_rbac(&rbac_ctx).await
AssertRbac(t) ==
  /\ UNCHANGED removed
  /\ pc[t] = "registered"
  /\ pc' = [pc EXCEPT ![t] = IF policy[tkey[t]] THEN "admitted" ELSE "denied"]
  /\ UNCHANGED <<cmVars, tkey, outcome, res, rel, polVars, pwVars, apiVars>>
\* mutant of the admission-denied path: the rejection is recorded and the
\* task returns with no release
ReleaseDenied_noRelease(t) ==
  /\ UNCHANGED removed
  /\ pc[t] = "denied"
  /\ outcome' = [outcome EXCEPT ![t] = "rejection"]
  /\ pc' = [pc EXCEPT ![t] = "done"]
  /\ tkey' = [tkey EXCEPT ![t] = None]
  /\ byClose' = [byClose EXCEPT ![t] = FALSE]
  /\ UNCHANGED <<drains, signal, entryRx, watch, closeCh, closePrior, lock, res, rel,
                 polVars, pwVars, apiVars>>

\* denied at admission: release, record AuthorizationPolicyRejection, return
ReleaseDenied(t) ==
  /\ UNCHANGED removed
  /\ pc[t] = "denied"
  /\ CM_release(tkey[t])
  /\ rel' = [rel EXCEPT ![t] = @ + 1]
  /\ outcome' = [outcome EXCEPT ![t] = "rejection"]
  /\ pc' = [pc EXCEPT ![t] = "done"]
  /\ tkey' = [tkey EXCEPT ![t] = None]
  /\ byClose' = [byClose EXCEPT ![t] = FALSE]
  /\ UNCHANGED <<watch, closeCh, closePrior, res, polVars, pwVars, apiVars>>

\* connection_manager.track(&rbac_ctx): Some(c) => c, None => record
\* AuthorizationPolicyRejection and return
Track(t) ==
  /\ UNCHANGED removed
  /\ pc[t] = "admitted"
  /\ CM_track(t, tkey[t])
  /\ IF track_ret(drains, tkey[t]) = None
     THEN /\ pc' = [pc EXCEPT ![t] = "done"]
          /\ outcome' = [outcome EXCEPT ![t] = "rejection"]
          /\ tkey' = [tkey EXCEPT ![t] = None]
          /\ byClose' = [byClose EXCEPT ![t] = FALSE]
     ELSE /\ pc' = [pc EXCEPT ![t] = "tracked"]
          /\ UNCHANGED <<outcome, tkey, byClose>>
  /\ UNCHANGED <<signal, entryRx, closeCh, closePrior, res, rel, polVars, pwVars, apiVars>>

\* the select! is polled for the first time: send and close.signaled() start
BeginSelect(t) ==
  /\ UNCHANGED removed
  /\ pc[t] = "tracked"
  /\ pc' = [pc EXCEPT ![t] = "relaying"]
  /\ UNCHANGED <<cmVars, tkey, outcome, res, rel, polVars, pwVars, apiVars>>

\* res = send completes (connect error, relay error or relay end); select!
\* drops the other branch, and with it the Watch, before the handler runs
RelayDone(t) ==
  /\ UNCHANGED removed
  /\ pc[t] = "relaying"
  /\ \E r \in {"ok", "err"} : res' = [res EXCEPT ![t] = r]
  /\ CM_drop(t)
  /\ pc' = [pc EXCEPT ![t] = "release"]
  /\ UNCHANGED <<drains, entryRx, closeCh, closePrior, byClose, tkey, outcome, rel,
                 polVars, pwVars, apiVars>>
\* mutant of the send branch: release is called before and after the relay
\* result is taken
Release_twice(t) ==
  /\ UNCHANGED removed
  /\ pc[t] = "release"
  /\ drains' = release(release(drains, tkey[t]), tkey[t])
  /\ entryRx' = entryRx \ release_drops(drains, tkey[t])
  /\ signal' = Sweep([ch \in Chans |->
                        IF ch \in release_drops(drains, tkey[t]) THEN "dropped" ELSE signal[ch]],
                     watch, entryRx \ release_drops(drains, tkey[t]), closeCh)
  /\ rel' = [rel EXCEPT ![t] = @ + 2]
  /\ UNCHANGED lock
  /\ outcome' = [outcome EXCEPT ![t] = IF res[t] = "ok" THEN "relay_ok" ELSE "relay_err"]
  /\ pc' = [pc EXCEPT ![t] = "done"]
  /\ tkey' = [tkey EXCEPT ![t] = None]
  /\ byClose' = [byClose EXCEPT ![t] = FALSE]
  /\ UNCHANGED <<watch, closeCh, closePrior, res, polVars, pwVars, apiVars>>

\* handler of the send branch: connection_manager.release(&rbac_ctx); then
\* result_tracker.record(res)
Release(t) ==
  /\ UNCHANGED removed
  /\ pc[t] = "release"
  /\ CM_release(tkey[t])
  /\ rel' = [rel EXCEPT ![t] = @ + 1]
  /\ outcome' = [outcome EXCEPT ![t] = IF res[t] = "ok" THEN "relay_ok" ELSE "relay_err"]
  /\ pc' = [pc EXCEPT ![t] = "done"]
  /\ tkey' = [tkey EXCEPT ![t] = None]
  /\ byClose' = [byClose EXCEPT ![t] = FALSE]
  /\ UNCHANGED <<watch, closeCh, closePrior, res, polVars, pwVars, apiVars>>

\* _signaled = close.signaled() completes first: res is
\* Err(AuthorizationPolicyLateRejection), the handle is dropped, record(res)
SignalWins(t) ==
  /\ UNCHANGED removed
  /\ pc[t] = "relaying"
  /\ Signaled(signal, watch[t])
  /\ res' = [res EXCEPT ![t] = "late"]
  /\ CM_drop(t)
  /\ outcome' = [outcome EXCEPT ![t] = "late_rejection"]
  /\ pc' = [pc EXCEPT ![t] = "done"]
  /\ tkey' = [tkey EXCEPT ![t] = None]
  /\ byClose' = [byClose EXCEPT ![t] = FALSE]
  /\ UNCHANGED <<drains, entryRx, closeCh, closePrior, rel, polVars, pwVars, apiVars>>

\* --------------------------------------------------- policy store, drain
\* an authorization policy is inserted or removed; a live subscription is
\* notified
PolicyChange ==
  /\ \E k \in Keys : policy' = [policy EXCEPT ![k] = ~@]
  /\ pending' = (pwpc \notin {"start", "done"})
  /\ UNCHANGED <<cmVars, taskVars, stop, pwVars, apiVars>>

\* the owner of the PolicyWatcher sends the drain signal (tx.drain())
StopSignal ==
  /\ ~stop
  /\ stop' = TRUE
  /\ UNCHANGED <<cmVars, taskVars, policy, pending, pwVars, apiVars>>

\* ------------------------------------------------------ PolicyWatcher::run
\* index of the connection the for loop is at
pwIdx == Len(pwRes)

\* mutant of the for loop: it is left after the first connection
pwNext_break(i) == "end"

\* the for loop moves on; after the last connection its body is left
pwNext(i) == IF i = Len(pwSnap) THEN "end" ELSE "assert"

\* let mut policies_changed = self.state.read().policies.subscribe()
PWSubscribe ==
  /\ pwpc = "start"
  /\ pwpc' = "wait"
  /\ UNCHANGED <<cmVars, taskVars, polVars, pwSnap, pwRes, pwClosed, pwErr, apiVars>>
\* mutant of the stop arm: continue in place of break
PWStop_continue ==
  /\ pwpc = "wait"
  /\ stop
  /\ UNCHANGED vars

\* select!: self.stop.clone().signaled() => break; run returns and drops
\* policies_changed
PWStop ==
  /\ pwpc = "wait"
  /\ stop
  /\ pwpc' = "done"
  /\ pending' = FALSE
  /\ UNCHANGED <<cmVars, taskVars, policy, stop, pwSnap, pwRes, pwClosed, pwErr, apiVars>>

\* select!: policies_changed.changed() => connections(); the for loop starts
PWObserve ==
  /\ pwpc = "wait"
  /\ pending
  /\ lock = "free"
  /\ pending' = FALSE
  /\ pwSnap' \in connections(drains)
  /\ pwRes' = <<>>
  /\ pwClosed' = {}
  /\ pwErr' = {}
  /\ pwpc' = IF Len(pwSnap') = 0 THEN "end" ELSE "assert"
  /\ UNCHANGED <<cmVars, taskVars, policy, stop, apiVars>>

\* if !self.state.assert_rbac(&conn).await
PWAssert ==
  /\ pwpc = "assert"
  /\ pwRes' = Append(pwRes, policy[pwSnap[pwIdx + 1]])
  /\ pwpc' = IF policy[pwSnap[pwIdx + 1]] THEN pwNext(pwIdx + 1) ELSE "close"
  /\ UNCHANGED <<cmVars, taskVars, polVars, pwSnap, pwClosed, pwErr, apiVars>>
\* mutant of close as the policy watcher calls it: no else branch, a missing
\* entry is passed over in silence
PWClose_silent ==
  /\ pwpc = "close"
  /\ CM_close(pwSnap[pwIdx])
  /\ IF pwSnap[pwIdx] \in DOMAIN drains
     THEN /\ pwpc' = "drain"
          /\ UNCHANGED pwClosed
     ELSE /\ pwpc' = pwNext(pwIdx)
          /\ pwClosed' = pwClosed \cup {pwIdx}
  /\ UNCHANGED <<watch, taskVars, polVars, pwSnap, pwRes, pwErr, apiVars>>

\* self.connection_manager.close(&conn) up to its await; with no entry close
\* returns at once
PWClose ==
  /\ pwpc = "close"
  /\ CM_close(pwSnap[pwIdx])
  /\ IF pwSnap[pwIdx] \in DOMAIN drains
     THEN /\ pwpc' = "drain"
          /\ UNCHANGED <<pwClosed, pwErr>>
     ELSE /\ pwpc' = pwNext(pwIdx)
          /\ pwClosed' = pwClosed \cup {pwIdx}
          /\ pwErr' = pwErr \cup {pwIdx}
  /\ UNCHANGED <<watch, taskVars, polVars, pwSnap, pwRes, apiVars>>

\* cd.drain().await returns; info!("connection {conn} closed ...")
PWDrained ==
  /\ pwpc = "drain"
  /\ CM_closed
  /\ pwClosed' = pwClosed \cup {pwIdx}
  /\ pwpc' = pwNext(pwIdx)
  /\ UNCHANGED pwErr
  /\ UNCHANGED <<drains, entryRx, watch, taskVars, polVars, pwSnap, pwRes, apiVars>>
\* mutant of the loop: the subscription is marked seen when the scan ends,
\* not when changed() returned
PWLoop_markSeen ==
  /\ pwpc = "end"
  /\ pwpc' = "wait"
  /\ pwSnap' = <<>>
  /\ pwRes' = <<>>
  /\ pwClosed' = {}
  /\ pwErr' = {}
  /\ pending' = FALSE
  /\ UNCHANGED <<cmVars, taskVars, policy, stop, apiVars>>

\* the select! arm ends, connections is dropped, loop: select! again
PWLoop ==
  /\ pwpc = "end"
  /\ pwpc' = "wait"
  /\ pwSnap' = <<>>
  /\ pwRes' = <<>>
  /\ pwClosed' = {}
  /\ pwErr' = {}
  /\ UNCHANGED <<cmVars, taskVars, polVars, apiVars>>

\* ------------------------------------------------------------------ Spec
TaskStep(t) ==
  \/ EarlyDeny(t)
  \/ Register(t)
  \/ AssertRbac(t)
  \/ ReleaseDenied(t)
  \/ Track(t)
  \/ BeginSelect(t)
  \/ RelayDone(t)
  \/ Release(t)
  \/ SignalWins(t)

PWStep ==
  \/ PWSubscribe
  \/ PWStop
  \/ PWObserve
  \/ PWAssert
  \/ PWClose
  \/ PWDrained
  \/ PWLoop

Next ==
  \/ \E t \in Tasks : TaskStep(t)
  \/ PWStep
  \/ PolicyChange
  \/ StopSignal

Spec == Init /\ [][Next]_vars

\* --------------------------------------------------------------- SpecApi
\* Callers of the ConnectionManager as in the tests of connection_manager.rs:
\* any call in any order; a task that got a Watch from track holds it
\* (pc "tracked"), awaits signaled() on it (pc "relaying") or drops it.
Called(o, k, r) == lastOp' = [op |-> o, key |-> k, ret |-> r, seq |-> 1 - lastOp.seq]

\* connection_manager.register(&c)
ApiRegister(k) ==
  /\ CM_register(k)
  /\ Called("register", k, None)
  /\ IF k \in DOMAIN drains
     THEN UNCHANGED <<tracks, releases>>
     ELSE /\ tracks' = [tracks EXCEPT ![k] = 0]
          /\ releases' = [releases EXCEPT ![k] = 0]
  /\ UNCHANGED <<watch, closeCh, closePrior, byClose, taskVars, polVars, pwVars>>

\* let close1 = connection_manager.track(&c)
ApiTrack(t, k) ==
  /\ UNCHANGED removed
  /\ pc[t] = "init"
  /\ k \in DOMAIN drains => tracks[k] < MaxTracks
  /\ CM_track(t, k)
  /\ Called("track", k, track_ret(drains, k))
  /\ pc' = [pc EXCEPT ![t] = IF track_ret(drains, k) = None THEN "init" ELSE "tracked"]
  /\ tkey' = [tkey EXCEPT ![t] = IF track_ret(drains, k) = None THEN None ELSE k]
  /\ tracks' = [tracks EXCEPT ![k] = IF track_ret(drains, k) = None THEN @ ELSE @ + 1]
  /\ UNCHANGED <<signal, entryRx, closeCh, closePrior, byClose, outcome, res, rel,
                 polVars, pwVars, releases>>

\* connection_manager.release(&c)
ApiRelease(k) ==
  /\ CM_release(k)
  /\ Called("release", k, None)
  /\ IF k \in DOMAIN drains'
     THEN /\ releases' = [releases EXCEPT ![k] = @ + 1]
          /\ UNCHANGED tracks
     ELSE /\ tracks' = [tracks EXCEPT ![k] = 0]
          /\ releases' = [releases EXCEPT ![k] = 0]
  /\ UNCHANGED <<watch, closeCh, closePrior, byClose, taskVars, polVars, pwVars>>

\* connection_manager.close(&c).await, up to the await inside it; ret is the
\* channel being drained (None: no entry, close returned)
ApiClose(k) ==
  /\ closeCh = None
  /\ CM_close(k)
  /\ Called("close", k, track_ret(drains, k))
  /\ tracks' = [tracks EXCEPT ![k] = 0]
  /\ releases' = [releases EXCEPT ![k] = 0]
  /\ UNCHANGED <<watch, taskVars, polVars, pwVars>>

\* the close().await of ApiClose returns
ApiClosed ==
  /\ CM_closed
  /\ Called("closed", lastOp.key, closeCh)
  /\ UNCHANGED <<drains, entryRx, watch, taskVars, polVars, pwVars, tracks, releases>>

\* tokio::spawn(assert_close(close1)) is polled: c.signaled() is awaited
ApiAwait(t) ==
  /\ UNCHANGED removed
  /\ pc[t] = "tracked"
  /\ pc' = [pc EXCEPT ![t] = "relaying"]
  /\ UNCHANGED <<cmVars, tkey, outcome, res, rel, polVars, pwVars, apiVars>>

\* c.signaled() resolves; the task ends and its handle is dropped
ApiSignaled(t) ==
  /\ UNCHANGED removed
  /\ pc[t] = "relaying"
  /\ Signaled(signal, watch[t])
  /\ CM_drop(t)
  /\ pc' = [pc EXCEPT ![t] = "init"]
  /\ tkey' = [tkey EXCEPT ![t] = None]
  /\ byClose' = [byClose EXCEPT ![t] = FALSE]
  /\ UNCHANGED <<drains, entryRx, closeCh, closePrior, outcome, res, rel,
                 polVars, pwVars, apiVars>>

\* drop(close1), or the task awaiting it is cancelled (timeout)
ApiDrop(t) ==
  /\ UNCHANGED removed
  /\ pc[t] \in {"tracked", "relaying"}
  /\ CM_drop(t)
  /\ pc' = [pc EXCEPT ![t] = "init"]
  /\ tkey' = [tkey EXCEPT ![t] = None]
  /\ byClose' = [byClose EXCEPT ![t] = FALSE]
  /\ UNCHANGED <<drains, entryRx, closeCh, closePrior, outcome, res, rel,
                 polVars, pwVars, apiVars>>

NextApi ==
  \/ \E k \in Keys : ApiRegister(k)
  \/ \E t \in Tasks, k \in Keys : ApiTrack(t, k)
  \/ \E k \in Keys : ApiRelease(k)
  \/ \E k \in Keys : ApiClose(k)
  \/ ApiClosed
  \/ \E t \in Tasks : ApiAwait(t)
  \/ \E t \in Tasks : ApiSignaled(t)
  \/ \E t \in Tasks : ApiDrop(t)

SpecApi == Init /\ [][NextApi]_vars

\* -------------------------------------------------------------- SpecLock
\* Threads of the runtime calling the ConnectionManager at the same time,
\* one step per HashMap operation: register, track, the removal of close and
\* connections make one operation under their guard, release makes two
\* (remove_entry, then insert or the drop of the entry) under one guard. A
\* Watch that track returns is dropped at once.

\* mutant of release: the guard is a temporary of the remove_entry statement,
\* the insert takes the lock again
release_guard_split(c) == "free"

\* release: let mut drains = self.drains.write() lives to the end of release
release_guard(c) == "held"

\* connection_manager.register(&c)
LRegister(t, k) ==
  /\ pc[t] = "init"
  /\ CM_register(k)
  /\ Called("register", k, None)
  /\ UNCHANGED <<watch, closeCh, closePrior, byClose, taskVars, polVars, pwVars,
                 tracks, releases>>

\* drop(connection_manager.track(&c))
LTrack(t, k) ==
  /\ pc[t] = "init"
  /\ lock = "free"
  /\ k \in DOMAIN drains => drains[k].count < MaxTracks
  /\ drains' = track(drains, k)
  /\ Called("track", k, track_ret(drains, k))
  /\ UNCHANGED <<signal, entryRx, watch, closeCh, closePrior, byClose, lock, taskVars,
                 polVars, pwVars, tracks, releases>>

\* release, first statement: drains.remove_entry(c)
LReleaseRemove(t, k) ==
  /\ pc[t] = "init"
  /\ lock = "free"
  /\ Called("release", k, None)
  /\ IF k \in DOMAIN drains
     THEN /\ drains' = Remove(drains, k)
          /\ removed' = [removed EXCEPT ![t] = <<[key |-> k, cd |-> drains[k]]>>]
          /\ lock' = release_guard(k)
          /\ pc' = [pc EXCEPT ![t] = "reinsert"]
     ELSE UNCHANGED <<drains, removed, lock, pc>>
  /\ UNCHANGED <<signal, entryRx, watch, closeCh, closePrior, byClose, tkey, outcome, res,
                 rel, polVars, pwVars, tracks, releases>>

\* release, the if: v.count -= 1; drains.insert(k, v), or v and the guard
\* are dropped
LReleaseInsert(t) ==
  /\ pc[t] = "reinsert"
  /\ IF removed[t][1].cd.count > 1
     THEN /\ drains' = Insert(drains, removed[t][1].key,
                              [removed[t][1].cd EXCEPT !.count = @ - 1])
          /\ UNCHANGED <<signal, entryRx>>
     ELSE /\ entryRx' = entryRx \ {removed[t][1].cd.tx}
          /\ signal' = Sweep([signal EXCEPT ![removed[t][1].cd.tx] = "dropped"],
                             watch, entryRx \ {removed[t][1].cd.tx}, closeCh)
          /\ UNCHANGED drains
  /\ lock' = "free"
  /\ removed' = [removed EXCEPT ![t] = <<>>]
  /\ pc' = [pc EXCEPT ![t] = "init"]
  /\ UNCHANGED <<watch, closeCh, closePrior, byClose, tkey, outcome, res, rel,
                 polVars, pwVars, apiVars>>

\* close(&c) up to its await
LClose(t, k) ==
  /\ pc[t] = "init"
  /\ closeCh = None
  /\ CM_close(k)
  /\ Called("close", k, track_ret(drains, k))
  /\ UNCHANGED <<watch, taskVars, polVars, pwVars, tracks, releases>>

\* the close().await of LClose returns
LClosed ==
  /\ CM_closed
  /\ Called("closed", lastOp.key, closeCh)
  /\ UNCHANGED <<drains, entryRx, watch, taskVars, polVars, pwVars, tracks, releases>>

\* let connections = connection_manager.connections()
LConnections(t) ==
  /\ pc[t] = "init"
  /\ lock = "free"
  /\ pwSnap' \in connections(drains)
  /\ Called("connections", lastOp.key, None)
  /\ UNCHANGED <<cmVars, taskVars, polVars, pwpc, pwRes, pwClosed, pwErr, tracks, releases>>

NextLock ==
  \/ \E t \in Tasks, k \in Keys : LRegister(t, k)
  \/ \E t \in Tasks, k \in Keys : LTrack(t, k)
  \/ \E t \in Tasks, k \in Keys : LReleaseRemove(t, k)
  \/ \E t \in Tasks : LReleaseInsert(t)
  \/ \E t \in Tasks, k \in Keys : LClose(t, k)
  \/ LClosed
  \/ \E t \in Tasks : LConnections(t)

SpecLock == Init /\ [][NextLock]_vars

\* ================================================================ claims
\* a step of SpecApi that is the call o on key k
ApiCall(o, k) == lastOp'.seq # lastOp.seq /\ lastOp'.op = o /\ lastOp'.key = k

\* the key is in the registry
Present(k) == k \in DOMAIN drains

\* C5: whenever an entry is present its refcount is the number of successful
\* track calls minus the number of release calls on that entry since the
\* register that created it (a fresh entry: 0, each successful track: +1).
C5_RefcountIsTracksMinusReleases ==
  \A k \in Keys : Present(k) => drains[k].count = tracks[k] - releases[k]

C5_Witness ==
  \E k \in Keys : Present(k) /\ tracks[k] = 2 /\ releases[k] = 1 /\ drains[k].count = 1

\* C6: release on a present entry with refcount n > 1 keeps the entry with
\* refcount n - 1 and the same, still open channel; with refcount 1 or 0 it
\* removes the entry; on an absent key it changes nothing.
C6_ReleaseEffect ==
  [][\A k \in Keys : ApiCall("release", k) =>
       /\ (Present(k) /\ drains[k].count > 1) =>
            /\ k \in DOMAIN drains'
            /\ drains'[k] = [tx |-> drains[k].tx, count |-> drains[k].count - 1]
            /\ signal'[drains[k].tx] = "open"
            /\ drains[k].tx \in entryRx'
       /\ (Present(k) /\ drains[k].count <= 1) => k \notin DOMAIN drains'
       /\ ~Present(k) => (drains' = drains /\ signal' = signal /\ entryRx' = entryRx)
       /\ watch' = watch]_vars

C6_Witness ==
  /\ lastOp.op = "release"
  /\ Present(lastOp.key)
  /\ drains[lastOp.key].count = 1
  /\ \E t \in Tasks : watch[t] = drains[lastOp.key].tx /\ signal[watch[t]] = "open"

\* C7: track on a key with no entry returns none and leaves the registry
\* unchanged; no track call ever creates an entry.
C7_TrackAbsentIsNone ==
  [][\A k \in Keys : ApiCall("track", k) =>
       /\ DOMAIN drains' = DOMAIN drains
       /\ ~Present(k) =>
            /\ lastOp'.ret = None
            /\ drains' = drains
            /\ watch' = watch
            /\ signal' = signal]_vars

C7_Witness ==
  /\ lastOp.op = "track"
  /\ lastOp.ret = None
  /\ ~Present(lastOp.key)
  /\ \E k \in Keys : Present(k)

\* C8: register on a key that has an entry changes nothing: refcount and
\* channel are kept, so the watchers issued before it are watchers of the
\* entry's channel, which a later close of the key signals.
C8_RegisterPresentIsNoOp ==
  [][\A k \in Keys :
       /\ (ApiCall("register", k) /\ Present(k)) =>
            /\ drains' = drains
            /\ signal' = signal
            /\ entryRx' = entryRx
            /\ watch' = watch
       /\ (ApiCall("close", k) /\ Present(k)) =>
            \A t \in Tasks : watch[t] = drains[k].tx => Signaled(signal', watch'[t])]_vars

C8_Witness ==
  /\ lastOp.op = "register"
  /\ Present(lastOp.key)
  /\ drains[lastOp.key].count = 2
  /\ \A t \in Tasks : watch[t] = drains[lastOp.key].tx

\* C9: the channel of an entry is never one that was closed or dropped, and
\* an entry comes into the registry only by register, with refcount 0 and a
\* fresh channel that nothing holds or drains: after close removed the
\* entry, track returns none until register creates a fresh entry.
C9_NoResurrection ==
  [][\A k \in Keys :
       /\ k \in DOMAIN drains' => signal'[drains'[k].tx] = "open"
       /\ (~Present(k) /\ k \in DOMAIN drains') =>
            /\ ApiCall("register", k)
            /\ drains'[k].count = 0
            /\ signal[drains'[k].tx] = "unused"
            /\ drains'[k].tx # closeCh
            /\ \A t \in Tasks : watch'[t] # drains'[k].tx
       /\ (ApiCall("track", k) /\ ~Present(k)) =>
            (lastOp'.ret = None /\ k \notin DOMAIN drains')]_vars

C9_Witness ==
  /\ lastOp.op = "register"
  /\ Present(lastOp.key)
  /\ drains[lastOp.key].count = 0
  /\ \E t \in Tasks :
       /\ tkey[t] = lastOp.key
       /\ watch[t] # None
       /\ watch[t] # drains[lastOp.key].tx
       /\ signal[watch[t]] = "signaled"


\* ------------------------------------------------------------- fairness
\* The executor polls every task that can make progress. A relay may block
\* for ever (no fairness on RelayDone), a connection need not arrive, policy
\* need not change and the drain signal need not be sent.
FairTask(t) ==
  /\ WF_vars(AssertRbac(t))
  /\ WF_vars(ReleaseDenied(t))
  /\ WF_vars(Track(t))
  /\ WF_vars(BeginSelect(t))
  /\ WF_vars(Release(t))
  /\ WF_vars(SignalWins(t))

FairSpec == Spec /\ (\A t \in Tasks : FairTask(t)) /\ WF_vars(PWStep)

\* the spawned assert_close tasks are polled; the awaited close is resumed
FairApi ==
  /\ SpecApi
  /\ \A t \in Tasks : WF_vars(ApiAwait(t)) /\ WF_vars(ApiSignaled(t))
  /\ WF_vars(ApiClosed)

\* C1: once close has removed a present entry, every task holding a watcher
\* of that entry's channel gets its signaled() wait resolved (and gives the
\* watcher up), also a task that only starts to await after the removal.
C1_CloseResolvesWatchers ==
  \A t \in Tasks : (closeCh # None /\ watch[t] = closeCh) ~> (watch[t] = None)

C1_Witness ==
  \E t \in Tasks :
    /\ pc[t] = "tracked"
    /\ watch[t] = closeCh
    /\ signal[watch[t]] = "signaled"
    /\ ~Present(tkey[t])

\* the close call of the policy watcher on key k returns in this step
PWCloseReturns(k) ==
  /\ pwpc \in {"close", "drain"}
  /\ pwpc' \notin {"close", "drain"}
  /\ pwSnap[pwIdx] = k

\* C2: close(ctx) returns only after every watcher returned by an earlier
\* track(ctx) was dropped: when the close call of the policy watcher on key
\* k returns, no task that held a watcher of k when close was called (any
\* holder of a watcher of k, when close found no entry) still holds it.
C2_CloseReturnsAfterWatchersDropped ==
  [][\A k \in Keys : PWCloseReturns(k) =>
       \A t \in Tasks :
         (tkey[t] = k /\ watch[t] # None) => (pwpc = "drain" /\ t \notin closePrior)]_vars

\* C3: in an iteration of the policy watcher the connections of the snapshot
\* are evaluated one at a time in snapshot order, a denied one is closed
\* (close awaited to its end) before the next one is evaluated, and the
\* iteration ends, and the next event is taken, only when every connection
\* of the snapshot was evaluated and every denied one closed.
C3_DeniedClosedBeforeNextEvent ==
  /\ Len(pwRes) <= Len(pwSnap)
  /\ pwClosed \subseteq 1..Len(pwRes)
  /\ \A i \in 1..Len(pwRes) :
       ~pwRes[i] => (i \in pwClosed \/ (i = Len(pwRes) /\ pwpc \in {"close", "drain"}))
  /\ \A i \in pwClosed : ~pwRes[i]
  /\ pwpc \in {"close", "drain"} => ~pwRes[Len(pwRes)]
  /\ pwpc = "end" =>
       /\ Len(pwRes) = Len(pwSnap)
       /\ pwClosed = {i \in 1..Len(pwSnap) : ~pwRes[i]}
       /\ closeCh = None
  /\ pwpc \in {"start", "wait", "done"} => (pwSnap = <<>> /\ closeCh = None)

C3_Witness ==
  /\ pwpc = "end"
  /\ Len(pwSnap) = 2
  /\ pwClosed = {1, 2}
  /\ \E t \in Tasks : outcome[t] = "late_rejection"

\* the task ended with an admission rejection (assert_rbac false, or track
\* returned none) or with its watcher firing
EndedRejected(t) == pc[t] = "done" /\ outcome[t] \in {"rejection", "late_rejection"}

\* the relay of the task ended by itself (peer closed, connect or copy error)
RelayEnded(t) == pc[t] = "done" /\ outcome[t] \in {"relay_ok", "relay_err"}

RegistryEmptyAtRest ==
  ((\A t \in Tasks : pc[t] = "done") /\ pwpc \notin {"close", "drain"}) => DOMAIN drains = {}

\* the task, having registered, returns in this step
TaskExits(t) == pc[t] \notin {"init", "done"} /\ pc'[t] = "done"

\* C10: no leaks: once every connection task has ended and no close is in
\* progress the registry is empty, and every exit of a connection task that
\* registered either makes a release or happens after a close removed the
\* entry of its key.
C10_NoLeak ==
  [][/\ RegistryEmptyAtRest'
     /\ \A t \in Tasks : TaskExits(t) => (rel'[t] = rel[t] + 1 \/ byClose[t])]_vars

\* C11: a connection task that got a watcher from track releases exactly
\* once when its relay finishes first and records the relay's result; when
\* its watcher fires first it records the late rejection and releases zero
\* times; no connection task releases more than once.
C11_ReleaseOncePerRelay ==
  \A t \in Tasks :
    /\ rel[t] <= 1
    /\ pc[t] \in {"tracked", "relaying", "release"} => rel[t] = 0
    /\ (pc[t] = "done" /\ res[t] = "ok") => (rel[t] = 1 /\ outcome[t] = "relay_ok")
    /\ (pc[t] = "done" /\ res[t] = "err") => (rel[t] = 1 /\ outcome[t] = "relay_err")
    /\ (pc[t] = "done" /\ res[t] = "late") => (rel[t] = 0 /\ outcome[t] = "late_rejection")
    /\ outcome[t] \in {"relay_ok", "relay_err", "late_rejection"} => res[t] # "none"

C11_Witness ==
  /\ \E t \in Tasks : pc[t] = "done" /\ res[t] = "late" /\ rel[t] = 0
  /\ \E t \in Tasks : pc[t] = "done" /\ res[t] = "err" /\ rel[t] = 1

\* C12: a connection task that assert_rbac denies at admission releases
\* exactly once, records the authorization policy rejection, never tracks
\* (the refcount of its key is not raised, it never holds a watcher and
\* never relays), and when no other task has registered the same key the
\* key is absent from the registry after its release.
C12_DeniedAtAdmission ==
  [][\A t \in Tasks :
       pc[t] = "denied" =>
         /\ rel[t] = 0 /\ watch[t] = None /\ res[t] = "none"
         /\ pc'[t] \in {"denied", "done"}
         /\ watch'[t] = None /\ res'[t] = "none"
         /\ pc'[t] = "done" =>
              /\ rel'[t] = 1
              /\ outcome'[t] = "rejection"
              /\ tkey[t] \in DOMAIN drains' => drains'[tkey[t]].count < drains[tkey[t]].count
              /\ (\A u \in Tasks \ {t} : tkey[u] # tkey[t]) => tkey[t] \notin DOMAIN drains']_vars

C12_Witness ==
  \E t \in Tasks :
    /\ pc[t] = "done" /\ outcome[t] = "rejection" /\ rel[t] = 1
    /\ \A u \in Tasks \ {t} : pc[u] = "init"
    /\ DOMAIN drains = {}

\* C13: a connection task that passed the admission check and gets none
\* from track records the authorization policy late rejection, the outcome
\* it records when its watcher fires, opens no upstream connection and
\* releases zero times.
C13_TrackNoneIsLateRejection ==
  [][\A t \in Tasks :
       (pc[t] = "admitted" /\ pc'[t] = "done") =>
         /\ outcome'[t] = "late_rejection"
         /\ res'[t] = "none"
         /\ rel'[t] = rel[t]]_vars

\* C14: the registry lock is never held at a suspension point: at every
\* point where tasks are scheduled, also while a close awaits the drain of
\* the entry it removed, the lock is free, so register, track, release and
\* connections() on any key are not blocked by close, and close never waits
\* for a task that waits for the lock.
C14_LockNotHeldAcrossAwait ==
  /\ lock = "free"
  /\ closeCh # None => \A k \in Keys : ENABLED ApiRelease(k)

C14_Witness ==
  /\ closeCh # None
  /\ lock = "free"
  /\ lastOp.op = "register"
  /\ Present(lastOp.key)
  /\ \E t \in closePrior : tkey[t] = lastOp.key /\ watch[t] = closeCh

\* select! polls its ready branches in a random order: a branch that is ready
\* every time the select! is entered is eventually the one taken
FairStop == FairSpec /\ SF_vars(PWStop)

\* C15: once the drain signal is sent the policy watcher eventually leaves
\* its loop and returns, also when policy changes keep arriving and when a
\* scan is in progress at the moment of the signal.
C15_WatcherStopsOnDrain == stop ~> (pwpc = "done")

C15_Witness ==
  /\ pwpc = "done"
  /\ stop
  /\ \E t \in Tasks : outcome[t] = "late_rejection"
  /\ \E t \in Tasks : pc[t] = "relaying" /\ ~policy[tkey[t]]

\* a scan is running: connections() was taken and the for loop has not ended
Scanning == pwpc \in {"assert", "close", "drain", "end"}

\* C16: no policy change notification is lost after the subscription: when
\* policy changed (once or several times) while a scan was running, then,
\* unless the drain signal is sent, a further scan starts after the last of
\* these changes; the changes of one scan may share that further scan.
C16_NoNotificationLost ==
  (pending /\ Scanning) ~> ((~pending /\ pwpc \in {"assert", "end"}) \/ stop)

C16_Witness ==
  /\ pending
  /\ pwpc = "drain"
  /\ ~stop
  /\ \E t \in Tasks : watch[t] = closeCh /\ policy[tkey[t]]

\* C17: close on a key with no entry returns without suspending, leaves the
\* registry and every channel unchanged, raises no error (its caller goes
\* on) and logs an error event; the policy watcher meets it when an entry of
\* its snapshot was removed after the snapshot was taken. A close that finds
\* the entry logs no error.
C17_CloseAbsentLogsAndReturns ==
  [][(pwpc = "close" /\ pwpc' # "close") =>
       IF pwSnap[pwIdx] \in DOMAIN drains
       THEN pwpc' = "drain" /\ pwErr' = pwErr
       ELSE /\ pwpc' = pwNext(pwIdx)
            /\ pwClosed' = pwClosed \cup {pwIdx}
            /\ pwErr' = pwErr \cup {pwIdx}
            /\ drains' = drains
            /\ signal' = signal
            /\ entryRx' = entryRx
            /\ watch' = watch
            /\ closeCh' = None
            /\ lock' = "free"]_vars

C17_Witness ==
  /\ pwpc = "end"
  /\ pwErr # {}
  /\ pwClosed # pwErr

\* C18: close on a registered entry removes the key and drops the entry's
\* own Watch before it awaits the drain, so a close for whose channel no
\* task holds a watcher (never tracked, or every watcher dropped) completes.
C18_CloseWithoutWatchersCompletes ==
  /\ [][\A k \in Keys : (ApiCall("close", k) /\ Present(k)) =>
          /\ k \notin DOMAIN drains'
          /\ closeCh' = drains[k].tx
          /\ drains[k].tx \notin entryRx']_vars
  /\ (closeCh # None /\ \A t \in Tasks : watch[t] # closeCh) ~> (closeCh = None)

C18_Witness ==
  /\ lastOp.op = "close"
  /\ closeCh # None
  /\ ~Present(lastOp.key)
  /\ \A t \in Tasks : watch[t] = None

\* the keys of a snapshot
Range(s) == {s[i] : i \in DOMAIN s}

\* C19: connections() returns the keys that have an entry at the instant of
\* the call, each once, as an owned snapshot that later changes of the
\* registry do not alter; connections_dump() returns one connection
\* descriptor per such key.
C19_ConnectionsIsSnapshot ==
  [][/\ (pwpc = "wait" /\ Scanning') =>
          /\ Range(pwSnap') = DOMAIN drains
          /\ Len(pwSnap') = Cardinality(DOMAIN drains)
     /\ (Scanning /\ Scanning') => pwSnap' = pwSnap
     /\ \A q \in connections_dump(drains') :
          /\ Len(q) = Cardinality(DOMAIN drains')
          /\ \A c \in {Conn(k) : k \in Keys} :
               Cardinality({i \in DOMAIN q : q[i] = c})
                 = Cardinality({k \in DOMAIN drains' : Conn(k) = c})]_vars

C19_Witness ==
  /\ Scanning
  /\ Len(pwSnap) = 2
  /\ pwSnap[1] \notin DOMAIN drains
  /\ pwSnap[2] \in DOMAIN drains
  /\ Cardinality({q[1] : q \in connections_dump(drains)}) = 1

\* C20: register, track, release and close on key k leave every other key
\* as it is: its presence, its refcount and its channel, which stays open
\* with the entry's own Watch; no watcher a task holds for another key is
\* changed, signalled or dropped by the call. The return of a close changes
\* no entry and no watcher at all.
C20_OtherKeysUntouched ==
  [][/\ \A k \in Keys :
          (\E o \in {"register", "track", "release", "close"} : ApiCall(o, k)) =>
            /\ \A j \in Keys \ {k} :
                 /\ j \in DOMAIN drains' <=> j \in DOMAIN drains
                 /\ j \in DOMAIN drains =>
                      /\ drains'[j] = drains[j]
                      /\ signal'[drains[j].tx] = "open"
                      /\ drains[j].tx \in entryRx'
            /\ \A t \in Tasks :
                 (tkey[t] # None /\ tkey[t] # k) =>
                   /\ watch'[t] = watch[t]
                   /\ tkey'[t] = tkey[t]
                   /\ signal'[watch[t]] = signal[watch[t]]
     /\ (lastOp'.seq # lastOp.seq /\ lastOp'.op = "closed") =>
          /\ drains' = drains
          /\ entryRx' = entryRx
          /\ watch' = watch
          /\ \A t \in Tasks : watch[t] # None => signal'[watch[t]] = signal[watch[t]]]_vars

C20_Witness ==
  /\ lastOp.op = "close"
  /\ closeCh # None
  /\ \E t \in Tasks : watch[t] = closeCh /\ tkey[t] = lastOp.key
  /\ \E j \in DOMAIN drains, t \in Tasks :
       j # lastOp.key /\ tkey[t] = j /\ watch[t] = drains[j].tx /\ signal[watch[t]] = "open"

\* C21: a connection task that ends with an early deny makes no register,
\* track or release: the registry, the channels and the watchers are the
\* same after the task as before it.
C21_EarlyDenyLeavesRegistry ==
  [][\A t \in Tasks :
       (outcome[t] = "none" /\ outcome'[t] = "early_deny") =>
         /\ pc[t] = "init" /\ pc'[t] = "done"
         /\ drains' = drains
         /\ signal' = signal
         /\ entryRx' = entryRx
         /\ watch' = watch
         /\ rel'[t] = 0 /\ tkey'[t] = None /\ res'[t] = "none"]_vars

C21_Witness ==
  /\ \E t \in Tasks : pc[t] = "done" /\ outcome[t] = "early_deny"
  /\ \E t \in Tasks : pc[t] = "relaying" /\ Present(tkey[t]) /\ drains[tkey[t]].count = 1

\* C22: a connection stays tracked for its whole valid span: while a task
\* holds the watcher track gave it and has not released, the entry it
\* tracked is in the registry, unless a close of its key removed it; the
\* release of another task with the same key never removes it.
C22_TrackedWhileValid ==
  \A t \in Tasks :
    (pc[t] \in {"tracked", "relaying"} /\ watch[t] # None) =>
      \/ Present(tkey[t]) /\ drains[tkey[t]].tx = watch[t]
      \/ byClose[t]

\* C23: a connection task that registered its key and passed the admission
\* check gets none from track only when a close removed the entry of the key
\* between its register and its track; with no such close track returns a
\* watcher, whatever other tasks with the same key do.
C23_TrackNoneOnlyAfterClose ==
  [][\A t \in Tasks :
       (pc[t] = "admitted" /\ pc'[t] # "admitted" /\ ~byClose[t]) =>
         (pc'[t] = "tracked" /\ watch'[t] # None)]_vars

\* C24: every close the policy watcher starts returns: a connection task
\* holds no watcher once it has left its select!, on every exit path, and a
\* task whose relay blocks for ever takes the cancellation arm, so the
\* policy watcher is never stuck in a close.
C24_WatcherCloseReturns ==
  /\ [](\A t \in Tasks : pc[t] \in {"init", "release", "done"} => watch[t] = None)
  /\ (pwpc = "drain") ~> (pwpc # "drain")

C24_Witness ==
  /\ pwpc = "drain"
  /\ \A t \in Tasks : pc[t] \in {"tracked", "relaying"} /\ watch[t] = closeCh

\* thread t is between the remove_entry and the insert of a release of key
\* k whose refcount is greater than 1
MidRelease(t, k) ==
  /\ pc[t] = "reinsert"
  /\ removed[t][1].key = k
  /\ removed[t][1].cd.count > 1

\* C25: register, track, release and the removal of close are atomic with
\* respect to each other and to connections(): while a release of a key with
\* refcount n > 1 is between its remove and its re-insert no other thread
\* makes a call on the registry, so no connections() misses the key and no
\* track returns none for it, and the release ends with the entry present
\* at refcount n - 1 on the same channel.
C25_ReleaseIsAtomic ==
  [][\A t \in Tasks, k \in Keys :
       MidRelease(t, k) =>
         /\ lock = "held"
         /\ ~(ApiCall("track", k) /\ lastOp'.ret = None)
         /\ ~(lastOp'.seq # lastOp.seq /\ lastOp'.op = "connections" /\ k \notin Range(pwSnap'))
         /\ lastOp'.seq # lastOp.seq => lastOp'.op = "closed"
         /\ \A u \in Tasks \ {t} : pc'[u] = pc[u]
         /\ k \notin DOMAIN drains
         /\ pc'[t] = "init" =>
              (k \in DOMAIN drains'
                 /\ drains'[k] = [removed[t][1].cd EXCEPT !.count = @ - 1]
                 /\ signal'[drains'[k].tx] = "open")]_vars

C25_Witness ==
  \E t \in Tasks :
    /\ MidRelease(t, 1)
    /\ lock = "held"
    /\ ~Present(1)
    /\ Present(2)
    /\ lastOp.op = "release"


====
